---- MODULE Spec2Model ----
(***************************************************************************)
(* Verification model of the value-validation core of tosca-parser:        *)
(*   toscaparser/utils/validateutils.py  (validators, TOSCAVersionProperty)*)
(*   toscaparser/parameters.py           (Input, Output)                   *)
(*   toscaparser/utils/hashutils.py      (hash_all)                        *)
(*                                                                         *)
(* Every operation is a call made by a caller with the ExceptionCollector  *)
(* in collecting mode: appendException appends a record to `sink`.  A      *)
(* Python exception that escapes the operation is recorded in `raised`.    *)
(* Python strings are sequences of one-character strings.                  *)
(***************************************************************************)
EXTENDS Integers, Sequences, FiniteSets, TLC

VARIABLES
    pc,      \* position of the caller: which call comes next
    args,    \* the arguments the caller passes
    self,    \* the object under construction / the constructed object
    sink,    \* ExceptionCollector.exceptions, in append order
    result,  \* value returned by the last call
    raised,  \* "none", or the Python exception that escaped the last call
    history  \* one record per completed call of Input.validate or hash_all

vars == <<pc, args, self, sink, result, raised, history>>

(***************************************************************************)
(* Bounds of the model                                                     *)
(***************************************************************************)
\* longest version string drawn from every string over the alphabet
MaxLen == 4
\* most components of a version string drawn as c1 sep c2 sep ... ck
MaxComps == 5

(***************************************************************************)
(* Python values                                                           *)
(***************************************************************************)
\* Python's None (a sequence, so that it compares with strings)
None == <<"<None>">>
\* an attribute that was never assigned
Unset == <<"<unset>">>
NoObject == [class |-> "none"]

\* the characters of the model: two digits, one letter, the two separators
Digit == {"0", "1"}
Letter == {"a"}
Alnum == Digit \cup Letter
Alphabet == Alnum \cup {".", "-"}

SeqsUpTo(S, n) == UNION {[1..k -> S] : k \in 0..n}

\* c1 sep c2 sep ... ck with one-character components
ComponentStrings(k) ==
    {[i \in 1..(2 * k - 1) |->
        IF i % 2 = 1 THEN cs[(i + 1) \div 2] ELSE ss[i \div 2]] :
        cs \in [1..k -> Alnum], ss \in [1..(k - 1) -> {".", "-"}]}

VersionInputs ==
    SeqsUpTo(Alphabet, MaxLen) \cup UNION {ComponentStrings(k) : k \in 1..MaxComps}

\* ExceptionCollector.appendException in collecting mode
appendException(s, e) == Append(s, e)

(***************************************************************************)
(* TOSCAVersionProperty                                                    *)
(***************************************************************************)
RECURSIVE DigitRunEnd(_, _)
\* [0-9]* from position i, greedy: the first position after the run
DigitRunEnd(s, i) ==
    IF i <= Len(s) /\ s[i] \in Digit THEN DigitRunEnd(s, i + 1) ELSE i

RECURSIVE AlnumRunEnd(_, _)
\* [0-9A-Za-z]* from position i, greedy: the first position after the run
AlnumRunEnd(s, i) ==
    IF i <= Len(s) /\ s[i] \in Alnum THEN AlnumRunEnd(s, i + 1) ELSE i

\* VERSION_RE.match(s): the groups Python's backtracking matcher captures.
\*   ^(?P<major_version>([0-9][0-9]*))
\*    (\.(?P<minor_version>([0-9][0-9]*)))?
\*    (\.(?P<fix_version>([0-9][0-9]*)))?
\*    (\.(?P<qualifier>([0-9A-Za-z]+)))?
\*    (\-(?P<build_version>[0-9])*)?$
\* An optional digit group is taken when its digits run up to a character
\* a later group can start with ("." or "-") or to the end; otherwise the
\* matcher backtracks and leaves the group unset.  The build group repeats
\* the one-digit capture, so it captures the last digit, and nothing when
\* the dash is followed by no digit.
VERSION_RE_match(s) ==
    LET n == Len(s)
        e0 == DigitRunEnd(s, 1)
        DigitsGroupEnd(p) ==
            IF p < n /\ s[p] = "."
            THEN LET e == DigitRunEnd(s, p + 1)
                 IN IF e > p + 1 /\ (e > n \/ s[e] \in {".", "-"}) THEN e ELSE p
            ELSE p
        e1 == DigitsGroupEnd(e0)
        e2 == DigitsGroupEnd(e1)
        e3 == IF e2 < n /\ s[e2] = "." /\ AlnumRunEnd(s, e2 + 1) > e2 + 1
              THEN AlnumRunEnd(s, e2 + 1) ELSE e2
        tail == \/ e3 > n
                \/ s[e3] = "-" /\ DigitRunEnd(s, e3 + 1) = n + 1
        Group(a, b) == IF b > a THEN SubSeq(s, a + 1, b - 1) ELSE None
    IN IF e0 > 1 /\ tail
       THEN [matched |-> TRUE,
             major_version |-> SubSeq(s, 1, e0 - 1),
             minor_version |-> Group(e0, e1),
             fix_version |-> Group(e1, e2),
             qualifier |-> Group(e2, e3),
             build_version |-> IF e3 < n THEN <<s[n]>> ELSE None]
       ELSE [matched |-> FALSE]

InvalidTOSCAVersionPropertyException(what) ==
    [kind |-> "InvalidVersion", what |-> what]

\* Python truthiness of an optional string
Truthy(v) == v # None /\ v # <<>>

\* sink after _validate_qualifier(value), called with the fields set so far
validate_qualifier(obj, value, s) ==
    IF \/ obj.fix_version = None /\ Truthy(value)
       \/ /\ obj.minor_version = obj.major_version
          /\ obj.major_version = obj.fix_version
          /\ obj.fix_version = <<"0">>
          /\ Truthy(value)
    THEN appendException(s, InvalidTOSCAVersionPropertyException(obj.version))
    ELSE s

\* sink after _validate_build(value)
validate_build(obj, value, s) ==
    IF ~Truthy(obj.qualifier) /\ Truthy(value)
    THEN appendException(s, InvalidTOSCAVersionPropertyException(obj.version))
    ELSE s

\* _validate_major_version with the build test left out
validate_major_version_nobuild(obj, value) ==
    IF obj.minor_version = None /\ value # <<"0">>
    THEN value \o <<".", "0">>
    ELSE obj.version

\* self.version after _validate_major_version(value)
validate_major_version(obj, value) ==
    IF obj.minor_version = None /\ obj.build_version = None /\ value # <<"0">>
    THEN value \o <<".", "0">>
    ELSE obj.version

ZeroVersions == {<<"0">>, <<"0", ".", "0">>, <<"0", ".", "0", ".", "0">>}

\* TOSCAVersionProperty.__init__(version)
TOSCAVersionProperty_init ==
    /\ pc = "version_new"
    /\ LET version == args.version
           match == VERSION_RE_match(version)
       IN IF ~match.matched
          THEN /\ sink' = appendException(sink,
                              InvalidTOSCAVersionPropertyException(version))
               /\ self' = [class |-> "TOSCAVersionProperty",
                           version |-> version,
                           major_version |-> Unset, minor_version |-> Unset,
                           fix_version |-> Unset, qualifier |-> Unset,
                           build_version |-> Unset]
          ELSE LET o1 == [class |-> "TOSCAVersionProperty",
                          version |-> IF version \in ZeroVersions
                                      THEN None ELSE version,
                          major_version |-> match.major_version,
                          minor_version |-> match.minor_version,
                          fix_version |-> match.fix_version,
                          qualifier |-> Unset,
                          build_version |-> Unset]
                   s1 == validate_qualifier(o1, match.qualifier, sink)
                   o2 == [o1 EXCEPT !.qualifier = match.qualifier]
                   s2 == validate_build(o2, match.build_version, s1)
                   o3 == [o2 EXCEPT !.build_version = match.build_version]
                   o4 == [o3 EXCEPT !.version =
                                validate_major_version(o3, o3.major_version)]
               IN /\ sink' = s2
                  /\ self' = o4
    /\ pc' = "version_built"
    /\ UNCHANGED <<args, result, raised, history>>

\* TOSCAVersionProperty.get_version()
get_version ==
    /\ pc = "version_built"
    /\ result' = self.version
    /\ pc' = "done"
    /\ UNCHANGED <<args, self, sink, raised, history>>

(***************************************************************************)
(* Primitive validators: validate_numeric, validate_list, validate_range,  *)
(* validate_value_in_range                                                 *)
(***************************************************************************)
\* Python values carry their runtime type: t is the type, and n, s or items
\* holds the number, the string or the elements
Num(n) == [t |-> "num", n |-> n, s |-> "", items |-> <<>>]
Str(x) == [t |-> "str", n |-> 0, s |-> x, items |-> <<>>]
List(xs) == [t |-> "list", n |-> 0, s |-> "", items |-> xs]
Tuple(xs) == [t |-> "tuple", n |-> 0, s |-> "", items |-> xs]

RANGE_UNBOUNDED == Str("UNBOUNDED")

\* order of the strings of the model under Python's str comparison
StrRank(x) == IF x = "UNBOUNDED" THEN 0 ELSE 1

\* a < b and a > b raise TypeError unless both are numbers or both strings
Comparable(a, b) == a.t = b.t /\ a.t \in {"num", "str"}
Less(a, b) == IF a.t = "num" THEN a.n < b.n ELSE StrRank(a.s) < StrRank(b.s)

ValueError(msg, value) == [kind |-> msg, value |-> value]
RangeValueError(pname, pvalue, vmin, vmax) ==
    [kind |-> "OutOfRange", pname |-> pname, pvalue |-> pvalue,
     vmin |-> vmin, vmax |-> vmax]

\* the outcome of a call: the sink it leaves and the exception that escaped
Returned(s) == [sink |-> s, raised |-> "none"]
Raised(s, e) == [sink |-> s, raised |-> e]

\* sequencing of Python statements: F runs on the sink out leaves, unless an
\* exception escaped
Bind(out, F(_)) == IF out.raised # "none" THEN out ELSE F(out.sink)

\* '"%s" ...' % value raises TypeError when value is a tuple that does not
\* hold exactly one element (the tuple is taken as the argument list)
PercentFormatRaises(value) == value.t = "tuple" /\ Len(value.items) # 1

\* ExceptionCollector.appendException(ValueError(_('"%s" ...') % value))
appendValueError(s, msg, value) ==
    IF PercentFormatRaises(value)
    THEN Raised(s, "TypeError")
    ELSE Returned(appendException(s, ValueError(msg, value)))

\* validate_numeric(value)
validate_numeric(value, s) ==
    IF value.t # "num"
    THEN appendValueError(s, "not a numeric", value)
    ELSE Returned(s)

\* validate_list(value)
validate_list(value, s) ==
    IF value.t # "list"
    THEN appendValueError(s, "not a list", value)
    ELSE Returned(s)

\* the tail of validate_range: the comparison of two numeric-checked bounds
validate_range_order(range, s) ==
    LET r == range.items
    IN IF r[1] # RANGE_UNBOUNDED /\ r[2] # RANGE_UNBOUNDED
       THEN IF ~Comparable(r[1], r[2])
            THEN Raised(s, "TypeError")                     \* min > max
            ELSE IF Less(r[2], r[1])
                 THEN appendValueError(s, "not a valid range", range)
                 ELSE Returned(s)
       ELSE Returned(s)

\* validate_range(range)
validate_range(range, s) ==
    Bind(validate_list(range, s), LAMBDA s1 :
      IF range.t \notin {"list", "tuple"}
      THEN Raised(s1, "TypeError")                          \* len(range)
      ELSE
      LET r == range.items
      IN Bind(IF Len(r) # 2
              THEN appendValueError(s1, "not a valid range", range)
              ELSE Returned(s1), LAMBDA s2 :
           IF Len(r) < 1
           THEN Raised(s2, "IndexError")                    \* range[0]
           ELSE
           Bind(IF r[1] # RANGE_UNBOUNDED
                THEN validate_numeric(r[1], s2)
                ELSE Returned(s2), LAMBDA s3 :
             IF Len(r) < 2
             THEN Raised(s3, "IndexError")                  \* range[1]
             ELSE
             Bind(IF r[2] # RANGE_UNBOUNDED
                  THEN validate_numeric(r[2], s3)
                  ELSE Returned(s3), LAMBDA s4 :
               validate_range_order(range, s4)))))

\* the lower-bound check of validate_value_in_range
check_lower(value, range, err, s) ==
    LET r == range.items
    IN IF r[1] # RANGE_UNBOUNDED
       THEN IF ~Comparable(value, r[1])
            THEN Raised(s, "TypeError")                     \* value < range[0]
            ELSE IF Less(value, r[1])
                 THEN Returned(appendException(s, err))
                 ELSE Returned(s)
       ELSE Returned(s)

\* the upper-bound check of validate_value_in_range
check_upper(value, range, err, s) ==
    LET r == range.items
    IN IF r[2] # RANGE_UNBOUNDED
       THEN IF ~Comparable(value, r[2])
            THEN Raised(s, "TypeError")                     \* value > range[1]
            ELSE IF Less(r[2], value)
                 THEN Returned(appendException(s, err))
                 ELSE Returned(s)
       ELSE Returned(s)

\* validate_value_in_range(value, range, prop_name)
validate_value_in_range(value, range, prop_name, s) ==
    Bind(validate_numeric(value, s), LAMBDA s1 :
      Bind(validate_range(range, s1), LAMBDA s2 :
        LET err == RangeValueError(prop_name, value,
                                   range.items[1], range.items[2])
        IN Bind(check_lower(value, range, err, s2), LAMBDA s3 :
             check_upper(value, range, err, s3))))

\* largest number drawn for a value or a bound
MaxNum == 2
\* longest list drawn for a range
MaxRangeLen == 3

Numbers == {Num(n) : n \in 0..MaxNum}
Scalars == Numbers \cup {RANGE_UNBOUNDED, Str("x")}
RangeInputs ==
    {List(xs) : xs \in SeqsUpTo(Scalars, MaxRangeLen)}
        \cup {Tuple(xs) : xs \in SeqsUpTo(Scalars, 2)}
        \cup {Num(0)}
ValueInputs == Numbers \cup {Str("x")}

\* the caller calls validate_range(range)
call_validate_range ==
    /\ pc = "range_call"
    /\ LET out == validate_range(args.range, sink)
       IN /\ sink' = out.sink
          /\ raised' = out.raised
          /\ result' = IF out.raised = "none" THEN args.range ELSE None
    /\ pc' = "validate_range_done"
    /\ UNCHANGED <<args, self, history>>

\* the caller calls validate_value_in_range(value, range, prop_name)
call_validate_value_in_range ==
    /\ pc = "range_call"
    /\ LET out == validate_value_in_range(args.value, args.range,
                                          args.prop_name, sink)
       IN /\ sink' = out.sink
          /\ raised' = out.raised
          /\ result' = IF out.raised = "none" THEN args.value ELSE None
    /\ pc' = "validate_value_in_range_done"
    /\ UNCHANGED <<args, self, history>>

(***************************************************************************)
(* Parameter model: Input and Output                                       *)
(***************************************************************************)
PyNone == [t |-> "none", n |-> 0, s |-> "", items |-> <<>>]

\* a dict whose keys are in insertion order; value is the entry under
\* "value", PyNone when there is none
Dict(keys, value) == [t |-> "dict", keys |-> keys, value |-> value]

Range(f) == {f[x] : x \in DOMAIN f}
DistinctSeqs(S, n) == {q \in SeqsUpTo(S, n) : Cardinality(Range(q)) = Len(q)}

UnknownFieldError(what, field) ==
    [kind |-> "UnknownField", what |-> what, field |-> field]
MissingRequiredFieldError(what, required) ==
    [kind |-> "MissingRequiredField", what |-> what, required |-> required]

INPUTFIELD == {"type", "description", "default", "constraints", "required",
               "status", "entry_schema", "title", "hint", "uitype", "ui"}

OUTPUTFIELD == {"description", "value", "default", "hidden", "type",
                "required", "constraints", "uitype"}

\* Schema.PROPERTY_TYPES, Schema.JSON, Schema.ENUM (elements/constraints.py)
PROPERTY_TYPES == {"integer", "string", "boolean", "float", "range", "number",
                   "timestamp", "list", "map", "scalar-unit.size",
                   "scalar-unit.frequency", "scalar-unit.time", "version",
                   "PortDef", "PortSpec", "json", "enum"}
JSON == "json"
ENUM == "enum"

\* EntityType.TOSCA_DEF and EntityType.DATATYPE_NETWORK_PREFIX
TOSCA_DEF == {"tosca.datatypes.Credential", "tosca.datatypes.network.PortInfo"}
DATATYPE_NETWORK_PREFIX(type) ==
    IF type = "PortInfo" THEN "tosca.datatypes.network.PortInfo" ELSE "<none>"

\* Schema(name, schema_dict): keeps the mapping; type and constraints read it
Schema(name, schema_dict) == [name |-> name, schema |-> schema_dict]
Schema_type(schema) == schema.schema.type
Schema_constraints(schema) == schema.schema.constraints

\* a constraint object reports a failure for the values it rejects
Constraint_validate(c, value, s) ==
    IF \/ c.rejects = "all"
       \/ c.rejects = "given" /\ value # PyNone
    THEN appendException(s, [kind |-> "ValidationError",
                             constraint |-> c.rejects, value |-> value])
    ELSE s

\* DataEntity.validate_datatype(type, value, schema, datatype)
DataEntity_validate_datatype(type, value, schema, datatype) == value

RECURSIVE validate_field_from(_, _, _, _, _)
\* the loop of Input._validate_field and of Output._validate_field over the
\* keys from position i
validate_field_from(keys, i, fields, what, s) ==
    IF i > Len(keys) THEN s
    ELSE validate_field_from(keys, i + 1, fields, what,
            IF keys[i] \notin fields
            THEN appendException(s, UnknownFieldError(what, keys[i]))
            ELSE s)

\* _validate_field stopping at the first unrecognized key
Input_validate_field_first(obj, s) ==
    LET keys == obj.schema.schema.keys
        bad == {i \in DOMAIN keys : keys[i] \notin INPUTFIELD}
    IN IF bad = {} THEN s
       ELSE appendException(s, UnknownFieldError(<<"Input", obj.name>>,
                keys[CHOOSE i \in bad : \A j \in bad : i <= j]))

\* Input._validate_field()
Input_validate_field(obj, s) ==
    validate_field_from(obj.schema.schema.keys, 1, INPUTFIELD,
                        <<"Input", obj.name>>, s)

\* what '"%s"' % type gives: the builtin type, not the argument input_type
BuiltinType == "<class 'type'>"

\* Input.validate_type(input_type)
Input_validate_type(input_type, s) ==
    IF input_type \notin PROPERTY_TYPES
    THEN appendException(s, [kind |-> "InvalidType", named |-> BuiltinType])
    ELSE s

\* Input.__init__(name, schema_dict)
Input_init ==
    /\ pc = "input_new"
    /\ LET obj == [class |-> "Input", name |-> args.name,
                   schema |-> Schema(args.name, args.schema_dict)]
           s1 == Input_validate_field(obj, sink)
           s2 == Input_validate_type(Schema_type(obj.schema), s1)
       IN /\ self' = obj
          /\ sink' = s2
    /\ pc' = "input_built"
    /\ UNCHANGED <<args, result, raised, history>>

\* most calls of Input.validate on one Input
MaxCalls == 2

\* Input._validate_value(value): the call made to the datatype validator
Input_validate_value_call(obj, value) ==
    LET type == Schema_type(obj.schema)
        datatype == IF type \in TOSCA_DEF THEN type
                    ELSE IF DATATYPE_NETWORK_PREFIX(type) \in TOSCA_DEF
                         THEN DATATYPE_NETWORK_PREFIX(type)
                         ELSE "<None>"
        schema == IF type \in {JSON, ENUM} THEN obj.schema.name ELSE "<None>"
    IN [op |-> "validate_datatype", type |-> type, value |-> value,
        schema |-> schema, datatype |-> datatype, constraint |-> "<None>"]

RECURSIVE Input_validate_constraints_stop(_, _, _, _)
\* the constraint loop ending at the first constraint that reports a failure
Input_validate_constraints_stop(cs, i, value, st) ==
    IF i > Len(cs) THEN st
    ELSE LET s1 == Constraint_validate(cs[i], value, st.sink)
             st1 == [sink |-> s1,
                     calls |-> Append(st.calls,
                         [op |-> "constraint.validate", type |-> "<None>",
                          value |-> value, schema |-> "<None>",
                          datatype |-> "<None>", constraint |-> cs[i].rejects])]
         IN IF s1 # st.sink THEN st1
            ELSE Input_validate_constraints_stop(cs, i + 1, value, st1)

RECURSIVE Input_validate_constraints(_, _, _, _)
\* the loop "for c in self.constraints: c.validate(value)" from position i:
\* the sink and the calls made
Input_validate_constraints(cs, i, value, st) ==
    IF i > Len(cs) THEN st
    ELSE Input_validate_constraints(cs, i + 1, value,
            [sink |-> Constraint_validate(cs[i], value, st.sink),
             calls |-> Append(st.calls,
                 [op |-> "constraint.validate", type |-> "<None>",
                  value |-> value, schema |-> "<None>",
                  datatype |-> "<None>", constraint |-> cs[i].rejects])])

\* Input.validate(value=None)
Input_validate(value) ==
    /\ pc = "input_built"
    /\ Len(history) < MaxCalls
    /\ LET calls0 == IF value # PyNone
                     THEN <<Input_validate_value_call(self, value)>>
                     ELSE <<>>
           validated_value ==
               IF value # PyNone
               THEN LET c == calls0[1]
                    IN DataEntity_validate_datatype(c.type, c.value, c.schema,
                                                    c.datatype)
               ELSE PyNone
           st == Input_validate_constraints(Schema_constraints(self.schema), 1,
                     value, [sink |-> sink, calls |-> calls0])
       IN /\ sink' = st.sink
          /\ result' = validated_value
          /\ history' = Append(history,
                 [value |-> value, returned |-> validated_value,
                  diagnostics |-> SubSeq(st.sink, Len(sink) + 1, Len(st.sink)),
                  calls |-> st.calls, object |-> self])
    /\ UNCHANGED <<pc, args, self, raised>>

\* Output.__init__(name, attrs)
Output_init ==
    /\ pc = "output_new"
    /\ self' = [class |-> "Output", name |-> args.name, attrs |-> args.attrs]
    /\ pc' = "output_built"
    /\ UNCHANGED <<args, sink, result, raised, history>>

\* Output.value: self.attrs.get("value") raises AttributeError unless attrs
\* has a get method
Output_value(obj) ==
    IF obj.attrs.t # "dict"
    THEN [raised |-> "AttributeError", value |-> PyNone]
    ELSE [raised |-> "none",
          value |-> IF "value" \in Range(obj.attrs.keys)
                    THEN obj.attrs.value ELSE PyNone]

\* Output._validate_field()
Output_validate_field(obj, s) ==
    LET what == <<"Output", obj.name>>
        s1 == IF obj.attrs.t # "dict"
              THEN appendException(s, MissingRequiredFieldError(what, "value"))
              ELSE s
        v == Output_value(obj)
    IN IF v.raised # "none" THEN Raised(s1, v.raised)
       ELSE
       LET s2 == IF v.value = PyNone
                 THEN appendException(s1, MissingRequiredFieldError(what, "value"))
                 ELSE s1
       IN Returned(validate_field_from(obj.attrs.keys, 1, OUTPUTFIELD, what, s2))

\* Output.validate()
Output_validate ==
    /\ pc = "output_built"
    /\ LET out == Output_validate_field(self, sink)
       IN /\ sink' = out.sink
          /\ raised' = out.raised
    /\ pc' = "output_validated"
    /\ UNCHANGED <<args, self, result, history>>

\* most keys of a schema or attribute mapping
MaxKeys == 3
\* most constraints attached to a schema
MaxConstraints == 2

InputKeys == {"type", "constraints", "bogus", "extra"}
OutputKeys == {"value", "description", "bogus", "extra"}
TypeTags == {"string", "json", "enum", "PortInfo", "bogus_type"}
Constraints == {[rejects |-> r] : r \in {"nothing", "given", "all"}}
InputValues == {PyNone, Str("v"), Num(1)}

SchemaDicts ==
    {[keys |-> ks, type |-> ty, constraints |-> cs] :
        ks \in {q \in DistinctSeqs(InputKeys, MaxKeys) : "type" \in Range(q)},
        ty \in TypeTags,
        cs \in SeqsUpTo(Constraints, MaxConstraints)}

AttrsInputs ==
    {Dict(ks, v) : ks \in DistinctSeqs(OutputKeys, MaxKeys),
                   v \in {PyNone, Str("v")}}
        \cup {Str("x"), List(<<>>), PyNone}

InitInput ==
    /\ pc = "input_new"
    /\ args \in {[name |-> "in1", schema_dict |-> d] :
                   d \in {sd \in SchemaDicts :
                            "constraints" \notin Range(sd.keys)
                                => sd.constraints = <<>>}}
    /\ self = NoObject
    /\ sink = <<>>
    /\ result = None
    /\ raised = "none"
    /\ history = <<>>

InitOutput ==
    /\ pc = "output_new"
    /\ args \in {[name |-> "out1", attrs |-> a] :
                   a \in {x \in AttrsInputs :
                            x.t = "dict" /\ "value" \notin Range(x.keys)
                                => x.value = PyNone}}
    /\ self = NoObject
    /\ sink = <<>>
    /\ result = None
    /\ raised = "none"
    /\ history = <<>>

(***************************************************************************)
(* Content fingerprint: hash_all                                           *)
(***************************************************************************)
\* the byte values of the model
Byte == {0, 1}
\* longest file content
MaxContent == 2
\* bytes file_as_blockiter reads at a time (65536 in the code, scaled to the
\* contents of the model)
BlockSize == 1
Contents == SeqsUpTo(Byte, MaxContent)

\* the associated files: "a" lies in the import directory, "b" in its
\* subdirectory "sub"
AssocNames == {"a", "b"}
TopFiles == {"a"}
SubFiles == {"b"}
NameRank(x) == IF x = "a" THEN 1 ELSE 2

\* file_as_blockiter yielding the first block only
file_as_blockiter_first(content, blocksize) ==
    IF Len(content) = 0 THEN <<>>
    ELSE IF Len(content) <= blocksize THEN <<content>>
         ELSE <<SubSeq(content, 1, blocksize)>>

RECURSIVE file_as_blockiter(_, _)
\* file_as_blockiter(afile, blocksize): the blocks read until an empty read
file_as_blockiter(content, blocksize) ==
    IF Len(content) = 0 THEN <<>>
    ELSE IF Len(content) <= blocksize THEN <<content>>
         ELSE <<SubSeq(content, 1, blocksize)>>
                  \o file_as_blockiter(
                         SubSeq(content, blocksize + 1, Len(content)), blocksize)

RECURSIVE hasher_update_all(_, _)
\* the bytes a hasher has been fed after update(block) for every block
hasher_update_all(fed, blocks) ==
    IF blocks = <<>> THEN fed
    ELSE hasher_update_all(fed \o Head(blocks), Tail(blocks))

RECURSIVE sha256_digest(_)
\* hashlib.sha256 taken as collision-free: the digest of the bytes fed is
\* their code in bijective base-3 numeration, one digit 1 or 2 per byte (a
\* number, so digests can be sorted)
sha256_digest(fed) ==
    IF fed = <<>> THEN 0
    ELSE (Head(fed) + 1) + 3 * sha256_digest(Tail(fed))

\* hash_bytestr_iter(bytesiter, hashlib.sha256())
hash_bytestr_iter(bytesiter) == sha256_digest(hasher_update_all(<<>>, bytesiter))

\* the digest of one file
file_hash(content) == hash_bytestr_iter(file_as_blockiter(content, BlockSize))

RECURSIVE hash_files(_, _, _)
\* hashes.append(...) for every name of names, in order
hash_files(hashes, names, files) ==
    IF names = <<>> THEN hashes
    ELSE hash_files(Append(hashes, file_hash(files[Head(names)])),
                    Tail(names), files)

\* sorted(x) and x.sort()
sorted(hashes) == SortSeq(hashes, LAMBDA x, y : x < y)
sort_names(names) == SortSeq(names, LAMBDA x, y : NameRank(x) < NameRank(y))

\* the final loop over hashes as appended, without sorted()
combine_unsorted(hashes) == [sha256 |-> hashes]

\* the final loop: hasher.update(val) for val in sorted(hashes), hexdigest();
\* the digests have one width, so the bytes fed are the sorted sequence
combine(hashes) == [sha256 |-> sorted(hashes)]

\* hash_all(template_path, import_dirs), import_dirs a set iterated in order
hash_all_set(files, order) ==
    combine(hash_files(<<file_hash(files["template"])>>, order, files))

\* hash_all(template_path, import_dirs), import_dirs a directory: os.walk
\* lists each directory in some order, top first; the code sorts each listing
hash_all_walk(files, top_listing, sub_listing) ==
    combine(hash_files(
                hash_files(<<file_hash(files["template"])>>,
                           sort_names(top_listing), files),
                sort_names(sub_listing), files))

Orders(S) == {q \in [1..Cardinality(S) -> S] : Range(q) = S}

\* the caller runs hash_all with the set of the associated names
call_hash_all_set ==
    /\ pc \in {"hash_ready", "hash_ran", "hash_written"}
    /\ \E order \in Orders(args.assoc) :
         /\ result' = hash_all_set(self.files, order)
         /\ history' = Append(history,
                [mode |-> "set", files |-> self.files,
                 digest |-> hash_all_set(self.files, order)])
    /\ pc' = IF pc = "hash_ready" THEN "hash_ran" ELSE "hash_done"
    /\ UNCHANGED <<args, self, sink, raised>>

\* the caller runs hash_all with the import directory
call_hash_all_walk ==
    /\ pc \in {"hash_ready", "hash_ran", "hash_written"}
    /\ \E top \in Orders(args.assoc \cap TopFiles),
          sub \in Orders(args.assoc \cap SubFiles) :
         /\ result' = hash_all_walk(self.files, top, sub)
         /\ history' = Append(history,
                [mode |-> "walk", files |-> self.files,
                 digest |-> hash_all_walk(self.files, top, sub)])
    /\ pc' = IF pc = "hash_ready" THEN "hash_ran" ELSE "hash_done"
    /\ UNCHANGED <<args, self, sink, raised>>

\* between two runs, one included file gets another content
write_file ==
    /\ pc = "hash_ran"
    /\ \E name \in {"template"} \cup args.assoc, content \in Contents :
         /\ content # self.files[name]
         /\ self' = [self EXCEPT !.files[name] = content]
    /\ pc' = "hash_written"
    /\ UNCHANGED <<args, sink, result, raised, history>>

InitHash ==
    /\ pc = "hash_ready"
    /\ args \in {[template_path |-> "template", assoc |-> S] :
                   S \in SUBSET AssocNames}
    /\ self \in {[class |-> "files", files |-> f] :
                   f \in [{"template"} \cup AssocNames -> Contents]}
    /\ \A name \in AssocNames \ args.assoc : self.files[name] = <<>>
    /\ sink = <<>>
    /\ result = None
    /\ raised = "none"
    /\ history = <<>>

InitRange ==
    /\ pc = "range_call"
    /\ args \in {[value |-> v, range |-> r, prop_name |-> "size"] :
                    v \in ValueInputs, r \in RangeInputs}
    /\ self = NoObject
    /\ sink = <<>>
    /\ result = None
    /\ raised = "none"
    /\ history = <<>>

InitVersion ==
    /\ pc = "version_new"
    /\ args \in {[version |-> s] : s \in VersionInputs}
    /\ self = NoObject
    /\ sink = <<>>
    /\ result = None
    /\ raised = "none"
    /\ history = <<>>

Init == InitVersion \/ InitRange \/ InitInput \/ InitOutput \/ InitHash

Next ==
    \/ TOSCAVersionProperty_init
    \/ get_version
    \/ call_validate_range
    \/ call_validate_value_in_range
    \/ Input_init
    \/ \E value \in InputValues : Input_validate(value)
    \/ Output_init
    \/ Output_validate
    \/ call_hash_all_set
    \/ call_hash_all_walk
    \/ write_file

Spec == Init /\ [][Next]_vars

\* the components on their own
NextVersion == TOSCAVersionProperty_init \/ get_version
SpecVersion == InitVersion /\ [][NextVersion]_vars

NextInput == Input_init \/ \E value \in InputValues : Input_validate(value)
SpecInput == InitInput /\ [][NextInput]_vars

NextHash == call_hash_all_set \/ call_hash_all_walk \/ write_file
SpecHash == InitHash /\ [][NextHash]_vars

(***************************************************************************)
(* Properties                                                              *)
(***************************************************************************)
CountKind(s, k) == Cardinality({i \in DOMAIN s : s[i].kind = k})

\* the field names the Input contract recognizes
RecognizedInputFields ==
    {"type", "description", "default", "constraints", "required", "status",
     "entry_schema", "title", "hint", "uitype", "ui"}

UnknownInputKeys == {k \in Range(args.schema_dict.keys) : k \notin RecognizedInputFields}

\* C1: after Input construction the sink holds exactly one UnknownField per
\* key outside the recognized set, plus one InvalidType when the declared
\* type tag is not recognized, and nothing else (so nothing for a schema of
\* recognized keys and a recognized tag).
C1_InputDiagnostics ==
    pc = "input_built" /\ history = <<>> =>
        /\ \A k \in UnknownInputKeys :
             Cardinality({i \in DOMAIN sink :
                 sink[i].kind = "UnknownField" /\ sink[i].field = k}) = 1
        /\ CountKind(sink, "UnknownField") = Cardinality(UnknownInputKeys)
        /\ CountKind(sink, "InvalidType") =
             IF args.schema_dict.type \in PROPERTY_TYPES THEN 0 ELSE 1
        /\ Len(sink) = CountKind(sink, "UnknownField")
                         + CountKind(sink, "InvalidType")

C1_Witness ==
    /\ pc = "input_built" /\ history = <<>>
    /\ Cardinality(UnknownInputKeys) = 2
    /\ args.schema_dict.type \notin PROPERTY_TYPES
    /\ Len(sink) = 3

MissingValueCount ==
    Cardinality({i \in DOMAIN sink :
        sink[i].kind = "MissingRequiredField" /\ sink[i].required = "value"})

\* C2: Output.validate records MissingRequiredField("value") twice in one
\* call when attrs is not a mapping (the structural and the missing-value
\* check both fire), and exactly once for a mapping without a non-null value.
C2_OutputMissingValue ==
    pc = "output_validated" =>
        /\ args.attrs.t # "dict" => MissingValueCount = 2
        /\ args.attrs.t = "dict" /\ Output_value(self).value = PyNone
              => MissingValueCount = 1

RECURSIVE SplitOn(_, _)
\* the parts of s between the occurrences of sep
SplitOn(s, sep) ==
    IF \E i \in DOMAIN s : s[i] = sep
    THEN LET i == CHOOSE k \in DOMAIN s :
                     s[k] = sep /\ \A j \in 1..(k - 1) : s[j] # sep
         IN <<SubSeq(s, 1, i - 1)>> \o SplitOn(SubSeq(s, i + 1, Len(s)), sep)
    ELSE <<s>>

AllIn(part, S) == Len(part) >= 1 /\ \A i \in DOMAIN part : part[i] \in S

\* the grammar major[.minor[.fix[.qualifier]]][-build] of the version contract
GrammarDash(s) == SplitOn(s, "-")
GrammarDots(s) == SplitOn(GrammarDash(s)[1], ".")
InGrammar(s) ==
    /\ Len(GrammarDash(s)) \in {1, 2}
    /\ Len(GrammarDash(s)) = 2 => AllIn(GrammarDash(s)[2], Digit)
    /\ Len(GrammarDots(s)) \in 1..4
    /\ \A i \in 1..Len(GrammarDots(s)) :
         AllIn(GrammarDots(s)[i], IF i = 4 THEN Alnum ELSE Digit)
HasMinor(s) == Len(GrammarDots(s)) >= 2
HasFix(s) == Len(GrammarDots(s)) >= 3
HasQualifier(s) == Len(GrammarDots(s)) = 4
HasBuild(s) == Len(GrammarDash(s)) = 2

\* the strings the version contract rejects
ContractInvalidVersion(s) ==
    \/ ~InGrammar(s)
    \/ HasQualifier(s) /\ ~HasFix(s)
    \/ HasQualifier(s) /\ \A i \in 1..3 : GrammarDots(s)[i] = <<"0">>
    \/ HasBuild(s) /\ ~HasQualifier(s)

\* C3: construction reports InvalidVersion exactly for the strings that do
\* not match the grammar, have a qualifier without fix or with major = minor
\* = fix = "0", or have a build without a qualifier.
C3_InvalidVersionIff ==
    pc = "version_built" =>
        (CountKind(sink, "InvalidVersion") > 0
            <=> ContractInvalidVersion(args.version))

\* C4: for a string of the grammar get_version returns nothing for "0",
\* "0.0" and "0.0.0", "major.0" when major stands without minor and build
\* and is not "0", and the input string otherwise.
C4_Normalization ==
    pc = "done" /\ InGrammar(args.version) =>
        result =
            IF args.version \in {<<"0">>, <<"0", ".", "0">>,
                                 <<"0", ".", "0", ".", "0">>}
            THEN None
            ELSE IF /\ ~HasMinor(args.version)
                    /\ ~HasBuild(args.version)
                    /\ GrammarDots(args.version)[1] # <<"0">>
                 THEN GrammarDots(args.version)[1] \o <<".", "0">>
                 ELSE args.version

C4_Witness ==
    /\ pc = "done"
    /\ InGrammar(args.version)
    /\ result = args.version \o <<".", "0">>

HashRuns ==
    IF pc \in {"hash_ran", "hash_written", "hash_done"} THEN DOMAIN history ELSE {}
Included == {"template"} \cup args.assoc

C6_ContentSensitive ==
    \A i, j \in HashRuns :
        Cardinality({n \in Included :
            history[i].files[n] # history[j].files[n]}) = 1
            => history[i].digest # history[j].digest

C6_Witness ==
    /\ pc = "hash_done"
    /\ Len(history) = 2
    /\ args.assoc = AssocNames
    /\ history[1].files["b"] # history[2].files["b"]
    /\ Len(history[1].files["b"]) > BlockSize
    /\ history[1].digest # history[2].digest

IsBound(b) == b = RANGE_UNBOUNDED \/ b.t = "num"

\* the calls of validate_value_in_range the range contract accepts
ContractAcceptsRange(value, range) ==
    /\ range.t \in {"list", "tuple"}
    /\ Len(range.items) = 2
    /\ IsBound(range.items[1]) /\ IsBound(range.items[2])
    /\ range.items[1].t = "num" /\ range.items[2].t = "num"
          => range.items[1].n <= range.items[2].n
    /\ range.items[1].t = "num" => range.items[1].n <= value.n
    /\ range.items[2].t = "num" => value.n <= range.items[2].n

\* value lies outside a numeric bound of a two-element range
OutsideNumericBound(value, range) ==
    /\ range.t \in {"list", "tuple"}
    /\ Len(range.items) = 2
    /\ \/ range.items[1].t = "num" /\ value.n < range.items[1].n
       \/ range.items[2].t = "num" /\ value.n > range.items[2].n

\* C7: validate_value_in_range with a numeric value records no diagnostic
\* exactly when the range is a two-element sequence of UNBOUNDED or numeric
\* bounds with min <= max and the value lies within the numeric bounds; a
\* value outside a numeric bound records OutOfRange(name, value, min, max).
C7_ValueInRange ==
    pc = "validate_value_in_range_done" /\ args.value.t = "num" =>
        /\ sink = <<>> <=> ContractAcceptsRange(args.value, args.range)
        /\ OutsideNumericBound(args.value, args.range) =>
             /\ \E i \in DOMAIN sink :
                  /\ sink[i].kind = "OutOfRange"
                  /\ sink[i] = RangeValueError(args.prop_name, args.value,
                              args.range.items[1], args.range.items[2])

\* C8: no call of a validator or of Output.validate ends with an exception
\* escaping to the caller.
C8_NeverAborts == raised = "none"

\* C9: a call of a validator, a TOSCAVersionProperty construction or an Input
\* construction with one defect appends no record when the input is accepted
\* and exactly one when it is rejected, and an InvalidType record names the
\* declared type tag.
C9_OneDiagnostic ==
    /\ pc \in {"validate_range_done", "version_built"} => Len(sink) <= 1
    /\ pc = "validate_value_in_range_done" /\ args.value.t = "num" =>
         Len(sink) = IF ContractAcceptsRange(args.value, args.range)
                     THEN 0 ELSE 1
    /\ pc = "input_built" /\ history = <<>> =>
         /\ Cardinality(UnknownInputKeys)
              + (IF args.schema_dict.type \in PROPERTY_TYPES THEN 0 ELSE 1) = 1
                => Len(sink) = 1
         /\ \A i \in DOMAIN sink :
              sink[i].kind = "InvalidType"
                 => sink[i].named = args.schema_dict.type

InputCalls == IF pc = "input_built" THEN DOMAIN history ELSE {}

\* C10: every call of Input.validate calls the datatype validator only for a
\* supplied value, with the schema only for the json and enum types, then
\* calls validate(value) on every constraint once and in order, leaves the
\* Input as constructed, and gives the same result and diagnostics as any
\* other call with the same value.
C10_InputValidate ==
    \A k \in InputCalls :
        LET h == history[k]
            cs == args.schema_dict.constraints
            off == IF h.value = PyNone THEN 0 ELSE 1
        IN /\ h.object = self
           /\ self.name = args.name /\ self.schema.schema = args.schema_dict
           /\ Len(h.calls) = off + Len(cs)
           /\ off = 1 =>
                /\ h.calls[1].op = "validate_datatype"
                /\ h.calls[1].value = h.value
                /\ h.calls[1].schema # "<None>"
                     <=> args.schema_dict.type \in {"json", "enum"}
           /\ \A i \in 1..Len(cs) :
                /\ h.calls[off + i].op = "constraint.validate"
                /\ h.calls[off + i].constraint = cs[i].rejects
                /\ h.calls[off + i].value = h.value
           /\ \A j \in InputCalls :
                history[j].value = h.value
                   => /\ history[j].returned = h.returned
                      /\ history[j].diagnostics = h.diagnostics

C10_Witness ==
    /\ pc = "input_built"
    /\ Len(history) = 2
    /\ history[1].value = history[2].value
    /\ history[1].value # PyNone
    /\ args.schema_dict.type = "json"
    /\ Len(args.schema_dict.constraints) = 2
    /\ args.schema_dict.constraints[1].rejects = "all"
    /\ Len(history[2].diagnostics) = 2

====
